---- MODULE Spec2Model ----
(***************************************************************************)
(* State-machine model of src/process_scheduling.cpp: six CPU scheduling   *)
(* simulations (FCFS, SJF, SRTF, Round Robin, Priority, Preemptive         *)
(* Priority) over a vector of Process records, and calculateMetrics.       *)
(*                                                                         *)
(* One scheduler object is modelled.  Init is the object after its         *)
(* constructor; AddProcess appends to the vector; schedule() is modelled   *)
(* one loop iteration per step, the call to calculateMetrics that ends     *)
(* schedule() being part of the step that leaves the loop.                 *)
(*                                                                         *)
(* std::sort and std::priority_queue are modelled as the GNU libstdc++     *)
(* algorithms the program is built with (introsort ending in an insertion  *)
(* sort; __push_heap / __adjust_heap), because the order they give to      *)
(* equal keys decides which process runs.                                  *)
(***************************************************************************)
EXTENDS Integers, Sequences, FiniteSets

\* ---------------------------------------------------------------- bounds
MaxProcs == 2
MaxArrival == 2
MaxBurst == 2
MaxPriority == 2

\* Processes of the runs that look at ties in the ready set.
MaxTied == 4

\* Processes of the runs that look at std::sort on a long vector.
MaxSorted == 17
MaxPreempted == 3

\* A run over valid input cuts at most one slice per unit of burst time; the
\* cap only stops the runs that never end (Round Robin with a quantum of 0).
MaxSlices == (MaxProcs + MaxTied + MaxSorted) * MaxBurst + 1

Policies == {"FCFS", "SJF", "SRTF", "RR", "Priority", "PreemptivePriority"}

VARIABLES
    policy,       \* which Scheduler subclass the object is
    timeQuantum,  \* RoundRobinScheduler::timeQuantum (0 for the other classes)
    processes,    \* Scheduler::processes, the vector of Process records
    pc,           \* "idle" before schedule(), "loop" inside its loop, "done" after it
    currentTime,  \* schedule()'s local currentTime
    completed,    \* schedule()'s local completed (FCFS: processes already iterated)
    i,            \* schedule()'s local i: index of the next process to admit (0-based)
    ready,        \* pq's underlying vector / readyQueue: positions into processes
    metrics,      \* avgWaitingTime, avgTurnaroundTime, avgResponseTime, throughput
    slices,       \* history: the execution slices given, in order
    finalized,    \* history: ids in the order their completionTime was assigned
    iterations    \* history: iterations of schedule()'s loop executed so far

vars == <<policy, timeQuantum, processes, pc, currentTime, completed, i, ready,
          metrics, slices, finalized, iterations>>

\* ------------------------------------------------------------ Process
\* Process::Process(id, arrival, burst, priority)
NewProcess(id, arrival, burst, priority) ==
    [id |-> id, arrivalTime |-> arrival, burstTime |-> burst,
     remainingTime |-> burst, completionTime |-> 0, turnaroundTime |-> 0,
     waitingTime |-> 0, responseTime |-> -1, priority |-> priority]

\* The default value of the constructor's priority parameter.
DefaultPriority == 0

Min(a, b) == IF a < b THEN a ELSE b
Max(a, b) == IF a > b THEN a ELSE b

\* -------------------------------------------------------------- std::sort
\* The comparator given to std::sort in every schedule() that sorts.
ArrivalLess(a, b) == a.arrivalTime < b.arrivalTime

\* libstdc++ __unguarded_linear_insert / __insertion_sort: val is moved left
\* past every element it is less than; equal elements keep their order.
RECURSIVE LinearInsert(_, _)
LinearInsert(sorted, val) ==
    IF sorted # << >> /\ ArrivalLess(val, sorted[Len(sorted)])
    THEN Append(LinearInsert(SubSeq(sorted, 1, Len(sorted) - 1), val),
                sorted[Len(sorted)])
    ELSE Append(sorted, val)

RECURSIVE InsertionSort(_, _)
InsertionSort(procs, k) ==
    IF k = 0 THEN << >>
    ELSE LinearInsert(InsertionSort(procs, k - 1), procs[k])

\* libstdc++ _S_threshold: ranges longer than this are partitioned first.
SortThreshold == 16

\* std::iter_swap of the elements at 0-based indices x and y.
IterSwap(a, x, y) == [a EXCEPT ![x + 1] = a[y + 1], ![y + 1] = a[x + 1]]

\* libstdc++ __move_median_to_first: the median of a[x], a[y], a[z] goes to
\* a[result].
MoveMedianToFirst(a, result, x, y, z) ==
    IF ArrivalLess(a[x + 1], a[y + 1])
    THEN IF ArrivalLess(a[y + 1], a[z + 1]) THEN IterSwap(a, result, y)
         ELSE IF ArrivalLess(a[x + 1], a[z + 1]) THEN IterSwap(a, result, z)
         ELSE IterSwap(a, result, x)
    ELSE IF ArrivalLess(a[x + 1], a[z + 1]) THEN IterSwap(a, result, x)
         ELSE IF ArrivalLess(a[y + 1], a[z + 1]) THEN IterSwap(a, result, z)
         ELSE IterSwap(a, result, y)

\* while (comp(first, pivot)) ++first;
RECURSIVE ScanUp(_, _, _)
ScanUp(a, f, pivot) ==
    IF ArrivalLess(a[f + 1], a[pivot + 1]) THEN ScanUp(a, f + 1, pivot) ELSE f

\* while (comp(pivot, last)) --last;
RECURSIVE ScanDown(_, _, _)
ScanDown(a, l, pivot) ==
    IF ArrivalLess(a[pivot + 1], a[l + 1]) THEN ScanDown(a, l - 1, pivot) ELSE l

\* libstdc++ __unguarded_partition of [first, last) around a[pivot].
RECURSIVE UnguardedPartition(_, _, _, _)
UnguardedPartition(a, first, last, pivot) ==
    LET f == ScanUp(a, first, pivot)
        l == ScanDown(a, last - 1, pivot)
    IN IF ~(f < l) THEN [a |-> a, cut |-> f]
       ELSE UnguardedPartition(IterSwap(a, f, l), f + 1, l, pivot)

\* libstdc++ __introsort_loop on [first, last).  Its heap-sort fallback needs
\* 2 * floor(lg n) nested partitions of ranges longer than SortThreshold,
\* which fewer than 25 elements cannot give; it is left out.
RECURSIVE IntrosortLoop(_, _, _)
IntrosortLoop(a, first, last) ==
    IF last - first > SortThreshold
    THEN LET mid == first + (last - first) \div 2
             m == MoveMedianToFirst(a, first, first + 1, mid, last - 1)
             part == UnguardedPartition(m, first + 1, last, first)
         IN IntrosortLoop(IntrosortLoop(part.a, part.cut, last), first, part.cut)
    ELSE a

\* std::sort: __introsort_loop, then __final_insertion_sort.
SortByArrival(procs) ==
    InsertionSort(IntrosortLoop(procs, 0, Len(procs)), Len(procs))

\* ------------------------------------------------- std::priority_queue
\* Cmp with the comparator of Preemptive Priority turned round.
CmpTurned(pol, procs, a, b) ==
    CASE pol = "SJF" -> procs[a].burstTime > procs[b].burstTime
      [] pol = "SRTF" -> procs[a].remainingTime > procs[b].remainingTime
      [] pol = "Priority" -> procs[a].priority < procs[b].priority
      [] pol = "PreemptivePriority" -> procs[a].priority < procs[b].priority
      [] OTHER -> FALSE

\* Cmp with SRTF comparing burstTime, as SJF does.
CmpByBurst(pol, procs, a, b) ==
    CASE pol = "SJF" -> procs[a].burstTime > procs[b].burstTime
      [] pol = "SRTF" -> procs[a].burstTime > procs[b].burstTime
      [] pol = "Priority" -> procs[a].priority < procs[b].priority
      [] pol = "PreemptivePriority" -> procs[a].priority > procs[b].priority
      [] OTHER -> FALSE

\* The comparator each schedule() gives its priority_queue; a and b are
\* positions into procs (the queue holds Process*).
Cmp(pol, procs, a, b) ==
    CASE pol = "SJF" -> procs[a].burstTime > procs[b].burstTime
      [] pol = "SRTF" -> procs[a].remainingTime > procs[b].remainingTime
      [] pol = "Priority" -> procs[a].priority < procs[b].priority
      [] pol = "PreemptivePriority" -> procs[a].priority > procs[b].priority
      [] OTHER -> FALSE

\* libstdc++ __push_heap: value climbs from the hole while its parent
\* compares less than it.  hole is 0-based, as in the library.
RECURSIVE PushHeapFrom(_, _, _, _, _, _)
PushHeapFrom(pol, procs, h, hole, top, value) ==
    LET parent == (hole - 1) \div 2 IN
    IF hole > top /\ Cmp(pol, procs, h[parent + 1], value)
    THEN PushHeapFrom(pol, procs, [h EXCEPT ![hole + 1] = h[parent + 1]],
                      parent, top, value)
    ELSE [h EXCEPT ![hole + 1] = value]

\* priority_queue::push: push_back, then push_heap.
PushHeap(pol, procs, h, value) ==
    PushHeapFrom(pol, procs, Append(h, value), Len(h), 0, value)

\* libstdc++ __adjust_heap, first loop: the hole sinks to the larger child
\* (the right child when neither compares less than the other).
RECURSIVE SinkHole(_, _, _, _, _)
SinkHole(pol, procs, h, hole, len) ==
    IF hole < (len - 1) \div 2
    THEN LET right == 2 * (hole + 1)
             child == IF Cmp(pol, procs, h[right + 1], h[right]) THEN right - 1
                      ELSE right
         IN SinkHole(pol, procs, [h EXCEPT ![hole + 1] = h[child + 1]], child, len)
    ELSE [h |-> h, hole |-> hole]

\* libstdc++ __adjust_heap: sink the hole, handle a last lone left child,
\* then __push_heap the value from the hole.
AdjustHeap(pol, procs, h, len, value) ==
    LET s == SinkHole(pol, procs, h, 0, len)
        t == IF len % 2 = 0 /\ s.hole = (len - 2) \div 2
             THEN [h |-> [s.h EXCEPT ![s.hole + 1] = s.h[2 * (s.hole + 1)]],
                   hole |-> 2 * (s.hole + 1) - 1]
             ELSE s
    IN PushHeapFrom(pol, procs, t.h, t.hole, 0, value)

\* priority_queue::pop: pop_heap (the last element is re-inserted from the
\* root), then pop_back.
PopHeap(pol, procs, h) ==
    IF Len(h) <= 1 THEN << >>
    ELSE AdjustHeap(pol, procs, SubSeq(h, 1, Len(h) - 1), Len(h) - 1, h[Len(h)])

\* pq.push / readyQueue.push of position k.
Push(pol, procs, rdy, k) ==
    IF pol = "RR" THEN Append(rdy, k) ELSE PushHeap(pol, procs, rdy, k)

\* pq.pop / readyQueue.pop.
Pop(pol, procs, rdy) ==
    IF pol = "RR" THEN Tail(rdy) ELSE PopHeap(pol, procs, rdy)

\* ----------------------------------------------------------- admission
\* for (; i < processes.size() && processes[i].arrivalTime <= currentTime; ++i)
\*     push(&processes[i]);
\* Admit with < for <= : a process arriving at the clock is left out.
RECURSIVE AdmitStrict(_, _, _, _, _)
AdmitStrict(pol, procs, rdy, k, t) ==
    IF k < Len(procs) /\ procs[k + 1].arrivalTime < t
    THEN AdmitStrict(pol, procs, Push(pol, procs, rdy, k + 1), k + 1, t)
    ELSE [ready |-> rdy, i |-> k]

\* Admit one tick early: a process arriving at clock + 1 is let in.
RECURSIVE AdmitEarly(_, _, _, _, _)
AdmitEarly(pol, procs, rdy, k, t) ==
    IF k < Len(procs) /\ procs[k + 1].arrivalTime <= t + 1
    THEN AdmitEarly(pol, procs, Push(pol, procs, rdy, k + 1), k + 1, t)
    ELSE [ready |-> rdy, i |-> k]

RECURSIVE Admit(_, _, _, _, _)
Admit(pol, procs, rdy, k, t) ==
    IF k < Len(procs) /\ procs[k + 1].arrivalTime <= t
    THEN Admit(pol, procs, Push(pol, procs, rdy, k + 1), k + 1, t)
    ELSE [ready |-> rdy, i |-> k]

\* ------------------------------------------------------ calculateMetrics
\* static_cast<double>(a) / b in IEEE arithmetic: 0/0 is NaN, x/0 is infinite.
Div(a, b) ==
    [kind |-> IF b # 0 THEN "finite" ELSE IF a = 0 THEN "nan" ELSE "inf",
     num |-> a, den |-> b]

RECURSIVE SumOf(_, _, _)
SumOf(procs, k, field) ==
    IF k = 0 THEN 0 ELSE SumOf(procs, k - 1, field) + procs[k][field]

\* MaxCompletion with std::min in place of std::max.
RECURSIVE MinCompletion(_, _)
MinCompletion(procs, k) ==
    IF k = 0 THEN 0
    ELSE Min(MinCompletion(procs, k - 1), procs[k].completionTime)

RECURSIVE MaxCompletion(_, _)
MaxCompletion(procs, k) ==
    IF k = 0 THEN 0
    ELSE Max(MaxCompletion(procs, k - 1), procs[k].completionTime)

CalculateMetrics(procs) ==
    LET n == Len(procs) IN
    [avgWaitingTime |-> Div(SumOf(procs, n, "waitingTime"), n),
     avgTurnaroundTime |-> Div(SumOf(procs, n, "turnaroundTime"), n),
     avgResponseTime |-> Div(SumOf(procs, n, "responseTime"), n),
     throughput |-> Div(n, MaxCompletion(procs, n))]

\* The four metrics members before calculateMetrics has assigned them (no
\* constructor initialises them; nothing reads them before schedule() ends).
Unset == [kind |-> "unset", num |-> 0, den |-> 0]
NoMetrics == [avgWaitingTime |-> Unset, avgTurnaroundTime |-> Unset,
              avgResponseTime |-> Unset, throughput |-> Unset]

\* ------------------------------------------------- per-process updates
\* FirstResponse without the test for the -1 sentinel.
FirstResponseAlways(p, t) == [p EXCEPT !.responseTime = t - p.arrivalTime]

\* if (p->responseTime == -1) p->responseTime = currentTime - p->arrivalTime;
FirstResponse(p, t) ==
    IF p.responseTime = -1 THEN [p EXCEPT !.responseTime = t - p.arrivalTime]
    ELSE p

\* Finalize with waitingTime taken from remainingTime instead of burstTime.
FinalizeFromRemaining(p, t) ==
    [p EXCEPT !.completionTime = t,
              !.turnaroundTime = t - p.arrivalTime,
              !.waitingTime = (t - p.arrivalTime) - p.remainingTime]

\* p->completionTime = t; p->turnaroundTime = p->completionTime - p->arrivalTime;
\* p->waitingTime = p->turnaroundTime - p->burstTime;
Finalize(p, t) ==
    [p EXCEPT !.completionTime = t,
              !.turnaroundTime = t - p.arrivalTime,
              !.waitingTime = (t - p.arrivalTime) - p.burstTime]

\* FCFSBody without the jump of the clock to the arrival time.
FCFSBodyNoJump(p, t) ==
    Finalize([p EXCEPT !.responseTime = t - p.arrivalTime], t + p.burstTime)

\* One iteration of FCFS's for loop on process p with the clock at t.
FCFSBody(p, t) ==
    LET start == IF t < p.arrivalTime THEN p.arrivalTime ELSE t IN
    Finalize([p EXCEPT !.responseTime = start - p.arrivalTime],
             start + p.burstTime)

\* ExecutionTime reading processes[i - 1], the last admitted process.
ExecutionTimeStaleIndex(procs, p, k, t) ==
    IF k < Len(procs) THEN Min(p.remainingTime, procs[k].arrivalTime - t)
    ELSE p.remainingTime

\* SRTF / Preemptive Priority: the slice ends at the next unadmitted arrival.
ExecutionTime(procs, p, k, t) ==
    IF k < Len(procs) THEN Min(p.remainingTime, procs[k + 1].arrivalTime - t)
    ELSE p.remainingTime

\* QuantumSlice without the std::min.
QuantumSliceWhole(quantum, p) == quantum

\* Round Robin: std::min(timeQuantum, p->remainingTime).
QuantumSlice(quantum, p) == Min(quantum, p.remainingTime)

Slice(p, start, len) == [id |-> p.id, start |-> start, len |-> len]

\* ------------------------------------------------------------- actions
\* The scheduler object after construction: no processes yet.
InitWith(quanta) ==
    /\ policy \in Policies
    /\ timeQuantum \in (IF policy = "RR" THEN quanta ELSE {0})
    /\ processes = << >>
    /\ pc = "idle"
    /\ currentTime = 0
    /\ completed = 0
    /\ i = 0
    /\ ready = << >>
    /\ metrics = NoMetrics
    /\ slices = << >>
    /\ finalized = << >>
    /\ iterations = 0

\* Scheduler::addProcess; ids are given in insertion order.
AddProcess(arrival, burst, priority) ==
    /\ pc = "idle"
    /\ processes' = Append(processes,
                           NewProcess(Len(processes) + 1, arrival, burst, priority))
    /\ UNCHANGED <<policy, timeQuantum, pc, currentTime, completed, i, ready,
                   metrics, slices, finalized, iterations>>

\* The way out of schedule()'s loop: calculateMetrics() once the loop
\* condition fails with c processes done.
LoopEnd(procs, c) ==
    /\ pc' = IF c < Len(procs) THEN "loop" ELSE "done"
    /\ metrics' = IF c < Len(procs) THEN metrics ELSE CalculateMetrics(procs)

\* Entry of schedule(): the sort (Round Robin has none) and the locals.
Begin ==
    /\ pc = "idle"
    /\ processes' = IF policy = "RR" THEN processes ELSE SortByArrival(processes)
    /\ currentTime' = 0
    /\ completed' = 0
    /\ i' = 0
    /\ ready' = << >>
    /\ LoopEnd(processes', 0)
    /\ UNCHANGED <<policy, timeQuantum, slices, finalized, iterations>>

\* The ready set and i after the admission loop that opens an iteration.
Admitted == Admit(policy, processes, ready, i, currentTime)

\* The loop condition held: schedule() of policy pol is inside its loop.
\* (The cap on slices is the model's, see MaxSlices.)
InLoop(pol) == pc = "loop" /\ policy = pol

\* if (pq.empty()) taken; reading processes[i] needs i < processes.size().
CanIdle(pol) ==
    InLoop(pol) /\ Admitted.ready = << >> /\ Admitted.i < Len(processes)

\* if (pq.empty()) not taken: there is a process to pop.
CanDispatch(pol) ==
    InLoop(pol) /\ Admitted.ready # << >> /\ Len(slices) < MaxSlices

\* FCFS's for loop has a next element.
CanIterateFCFS ==
    InLoop("FCFS") /\ completed < Len(processes) /\ Len(slices) < MaxSlices

\* FCFSScheduler::schedule, one iteration of for (auto& p : processes).
FCFSIter ==
    /\ CanIterateFCFS
    /\ LET p == processes[completed + 1]
           q == FCFSBody(p, currentTime)
       IN /\ processes' = [processes EXCEPT ![completed + 1] = q]
          /\ currentTime' = q.completionTime
          /\ slices' = Append(slices,
                              Slice(p, q.completionTime - p.burstTime, p.burstTime))
          /\ finalized' = Append(finalized, p.id)
    /\ completed' = completed + 1
    /\ LoopEnd(processes', completed')
    /\ iterations' = iterations + 1
    /\ UNCHANGED <<policy, timeQuantum, i, ready>>

\* The iteration of a while loop that finds the ready set empty after
\* admission: currentTime = processes[i].arrivalTime; continue;
Idle(pol) ==
    /\ CanIdle(pol)
    /\ LET adm == Admitted IN
       /\ currentTime' = processes[adm.i + 1].arrivalTime
       /\ i' = adm.i
       /\ ready' = adm.ready
    /\ iterations' = iterations + 1
    /\ UNCHANGED <<policy, timeQuantum, processes, pc, completed, metrics,
                   slices, finalized>>

\* SJF / Priority: admit, pop the top, run it for its whole burstTime.
NonPreemptiveDispatch(pol) ==
    /\ CanDispatch(pol)
    /\ LET adm == Admitted IN
       /\ LET k == adm.ready[1]
              p == FirstResponse(processes[k], currentTime)
              q == Finalize(p, currentTime + p.burstTime)
          IN /\ ready' = Pop(pol, processes, adm.ready)
             /\ processes' = [processes EXCEPT ![k] = q]
             /\ currentTime' = q.completionTime
             /\ slices' = Append(slices, Slice(p, currentTime, p.burstTime))
             /\ finalized' = Append(finalized, p.id)
       /\ i' = adm.i
    /\ completed' = completed + 1
    /\ LoopEnd(processes', completed')
    /\ iterations' = iterations + 1
    /\ UNCHANGED <<policy, timeQuantum>>

\* SRTF / Preemptive Priority: admit, pop the top, run it until it ends or
\* the next arrival, then finalize it or push it back.
PreemptiveDispatch(pol) ==
    /\ CanDispatch(pol)
    /\ LET adm == Admitted IN
       /\ LET k == adm.ready[1]
              popped == Pop(pol, processes, adm.ready)
              p == FirstResponse(processes[k], currentTime)
              executionTime == ExecutionTime(processes, p, adm.i, currentTime)
              r == [p EXCEPT !.remainingTime = p.remainingTime - executionTime]
              t == currentTime + executionTime
              q == IF r.remainingTime = 0 THEN Finalize(r, t) ELSE r
              procs == [processes EXCEPT ![k] = q]
          IN /\ processes' = procs
             /\ currentTime' = t
             /\ slices' = Append(slices, Slice(p, currentTime, executionTime))
             /\ IF r.remainingTime = 0
                THEN /\ ready' = popped
                     /\ finalized' = Append(finalized, p.id)
                     /\ completed' = completed + 1
                ELSE /\ ready' = Push(pol, procs, popped, k)
                     /\ finalized' = finalized
                     /\ completed' = completed
       /\ i' = adm.i
    /\ LoopEnd(processes', completed')
    /\ iterations' = iterations + 1
    /\ UNCHANGED <<policy, timeQuantum>>

\* Round Robin: admit, take the front, run it for a quantum at most, admit
\* what arrived meanwhile, then re-enqueue or finalize it.
RRDispatch ==
    /\ CanDispatch("RR")
    /\ LET adm == Admitted IN
       /\ LET k == adm.ready[1]
              popped == Pop("RR", processes, adm.ready)
              p == FirstResponse(processes[k], currentTime)
              executionTime == QuantumSlice(timeQuantum, p)
              r == [p EXCEPT !.remainingTime = p.remainingTime - executionTime]
              t == currentTime + executionTime
              q == IF r.remainingTime > 0 THEN r ELSE Finalize(r, t)
              procs == [processes EXCEPT ![k] = q]
              adm2 == Admit("RR", procs, popped, adm.i, t)
          IN /\ processes' = procs
             /\ currentTime' = t
             /\ i' = adm2.i
             /\ slices' = Append(slices, Slice(p, currentTime, executionTime))
             /\ IF r.remainingTime > 0
                THEN /\ ready' = Push("RR", procs, adm2.ready, k)
                     /\ finalized' = finalized
                     /\ completed' = completed
                ELSE /\ ready' = adm2.ready
                     /\ finalized' = Append(finalized, p.id)
                     /\ completed' = completed + 1
    /\ LoopEnd(processes', completed')
    /\ iterations' = iterations + 1
    /\ UNCHANGED <<policy, timeQuantum>>

SJFIdle == Idle("SJF")
\* SJF with the loop body of SRTF: the slice ends at the next arrival.
SJFDispatchPreempting == PreemptiveDispatch("SJF")

SJFDispatch == NonPreemptiveDispatch("SJF")
SRTFIdle == Idle("SRTF")
SRTFDispatch == PreemptiveDispatch("SRTF")
RRIdle == Idle("RR")
PriorityIdle == Idle("Priority")
PriorityDispatch == NonPreemptiveDispatch("Priority")
PreemptivePriorityIdle == Idle("PreemptivePriority")
PreemptivePriorityDispatch == PreemptiveDispatch("PreemptivePriority")

\* One iteration of the loop of schedule(), whichever the policy.
Iterate ==
    \/ FCFSIter
    \/ SJFIdle \/ SJFDispatch
    \/ SRTFIdle \/ SRTFDispatch
    \/ RRIdle \/ RRDispatch
    \/ PriorityIdle \/ PriorityDispatch
    \/ PreemptivePriorityIdle \/ PreemptivePriorityDispatch

\* The guards of Iterate: some iteration of the running loop can execute.
CanIterate ==
    \/ CanIterateFCFS
    \/ \E pol \in Policies \ {"FCFS"} : CanIdle(pol) \/ CanDispatch(pol)

\* ------------------------------------------------------ specifications
\* Valid input: arrivalTime >= 0, burstTime > 0, timeQuantum > 0.
Init == InitWith(1 .. MaxBurst)

\* Only the two priority policies read Process::priority; the processes of
\* the other four are built with the constructor's default.
PrioritiesOf(pol) ==
    IF pol \in {"Priority", "PreemptivePriority"} THEN 1 .. MaxPriority
    ELSE {DefaultPriority}

AddValidProcess ==
    /\ Len(processes) < MaxProcs
    /\ \E arrival \in 0 .. MaxArrival, burst \in 1 .. MaxBurst,
          priority \in PrioritiesOf(policy) :
           AddProcess(arrival, burst, priority)

Next == AddValidProcess \/ Begin \/ Iterate

Spec == Init /\ [][Next]_vars

\* Any input, invalid values included: arrivalTime -1, burstTime 0 or -1,
\* timeQuantum 0.
InitAny == InitWith(0 .. MaxBurst)

AddAnyProcess ==
    /\ Len(processes) < MaxProcs
    /\ \E arrival \in -1 .. MaxArrival, burst \in -1 .. MaxBurst,
          priority \in PrioritiesOf(policy) :
           AddProcess(arrival, burst, priority)

NextAny == AddAnyProcess \/ Begin \/ Iterate

SpecAny == InitAny /\ [][NextAny]_vars

\* SJF over up to MaxTied processes, for the ties in its ready set.
InitTied == InitWith({0}) /\ policy = "SJF"

AddTiedProcess ==
    /\ Len(processes) < MaxTied
    /\ \E arrival \in 0 .. 1, burst \in 1 .. MaxBurst :
           AddProcess(arrival, burst, DefaultPriority)

NextTied == AddTiedProcess \/ Begin \/ SJFIdle \/ SJFDispatch

SpecTied == InitTied /\ [][NextTied]_vars

\* FCFS over up to MaxSorted processes of burst 1 inserted in arrival order.
InitSorted == InitWith({0}) /\ policy = "FCFS"

AddArrivingProcess ==
    /\ Len(processes) < MaxSorted
    /\ \E arrival \in 0 .. 1 :
          /\ processes # << >> =>
                processes[Len(processes)].arrivalTime <= arrival
          /\ AddProcess(arrival, 1, DefaultPriority)

NextSorted == AddArrivingProcess \/ Begin \/ FCFSIter

SpecSorted == InitSorted /\ [][NextSorted]_vars

\* SRTF over up to MaxPreempted processes with bursts up to MaxBurst + 1, so
\* that a newcomer can be strictly shorter than what is left of the running
\* process.
InitPreempt == InitWith({0}) /\ policy = "SRTF"

AddLongProcess ==
    /\ Len(processes) < MaxPreempted
    /\ \E arrival \in 0 .. MaxArrival, burst \in 1 .. MaxBurst + 1 :
           AddProcess(arrival, burst, DefaultPriority)

NextPreempt == AddLongProcess \/ Begin \/ SRTFIdle \/ SRTFDispatch

SpecPreempt == InitPreempt /\ [][NextPreempt]_vars

\* Round Robin over up to MaxPreempted processes in any insertion order.
InitQueue == InitWith(1 .. MaxBurst) /\ policy = "RR"

AddQueuedProcess ==
    /\ Len(processes) < MaxPreempted
    /\ \E arrival \in 0 .. MaxArrival, burst \in 1 .. MaxBurst :
           AddProcess(arrival, burst, DefaultPriority)

NextQueue == AddQueuedProcess \/ Begin \/ RRIdle \/ RRDispatch

SpecQueue == InitQueue /\ [][NextQueue]_vars

\* ------------------------------------------------- reading the history
N == Len(processes)
Positions == 1 .. Len(processes)
Done == pc = "done"
NonPreemptive == policy \in {"FCFS", "SJF", "Priority"}
Preemptive == policy \in {"SRTF", "RR", "PreemptivePriority"}

\* Total length of the slices given to process id among the first j slices.
RECURSIVE SlicesOf(_, _)
SlicesOf(id, j) ==
    IF j = 0 THEN 0
    ELSE SlicesOf(id, j - 1) + (IF slices[j].id = id THEN slices[j].len ELSE 0)

\* How many times process id was finalized.
TimesFinalized(id) ==
    Cardinality({m \in 1 .. Len(finalized) : finalized[m] = id})

TotalBurst == SumOf(processes, Len(processes), "burstTime")

\* The record of the process inserted as number id.
ById(id) == processes[CHOOSE k \in Positions : processes[k].id = id]

\* ----------------------------------------------------------------- C1
\* C1: when schedule() returns, every process has turnaroundTime =
\* completionTime - arrivalTime and waitingTime = turnaroundTime - burstTime,
\* under each of the six policies, for valid input.
C1_TimingIdentities ==
    Done => \A k \in Positions :
        /\ processes[k].turnaroundTime
              = processes[k].completionTime - processes[k].arrivalTime
        /\ processes[k].waitingTime
              = processes[k].turnaroundTime - processes[k].burstTime

\* A finished preemptive run in which some process waited.
C1_Witness ==
    /\ Done /\ policy = "SRTF" /\ N >= 2
    /\ \E k \in Positions :
          processes[k].waitingTime > 0 /\ processes[k].remainingTime = 0

\* ----------------------------------------------------------------- C2
\* C2: after schedule() on valid input every process has waitingTime >= 0 and
\* responseTime >= 0; responseTime <= waitingTime under FCFS, SJF and
\* Priority; responseTime <= completionTime - arrivalTime under SRTF, Round
\* Robin and Preemptive Priority.
C2_NonNegativeTimes ==
    Done => \A k \in Positions :
        /\ processes[k].waitingTime >= 0
        /\ processes[k].responseTime >= 0
        /\ NonPreemptive => processes[k].responseTime <= processes[k].waitingTime
        /\ Preemptive => processes[k].responseTime
                            <= processes[k].completionTime - processes[k].arrivalTime

\* A finished Round Robin run with a process that was preempted: it waited
\* longer than it took to respond.
C2_Witness ==
    /\ Done /\ policy = "RR"
    /\ \E k \in Positions :
          /\ processes[k].responseTime >= 0
          /\ processes[k].waitingTime > processes[k].responseTime

\* ----------------------------------------------------------------- C3
\* C3: a run over valid input (positive bursts, positive quantum) ends within
\* a bounded number of loop iterations with every process completed: at most
\* one dispatch per unit of burst time plus one idle jump per process, the
\* loop can always take its next iteration while it has not ended, and it
\* ends exactly when completed = number of processes.
C3_Terminates ==
    /\ Len(slices) <= TotalBurst
    /\ iterations <= TotalBurst + N
    /\ pc = "loop" => (completed < N /\ CanIterate)
    /\ Done => completed = N

\* A run of MaxProcs processes that ended after more iterations than
\* processes (an idle jump or a preemption happened).
C3_Witness ==
    Done /\ N = MaxProcs /\ completed = N /\ iterations > N

\* ----------------------------------------------------------------- C4
\* C4: every slice has positive length, no process is finalized twice, and
\* when schedule() returns each process has been finalized exactly once and
\* its slices add up to its burstTime.
C4_Conservation ==
    /\ \A j \in 1 .. Len(slices) : slices[j].len > 0
    /\ \A k \in Positions :
          /\ TimesFinalized(processes[k].id) <= 1
          /\ SlicesOf(processes[k].id, Len(slices)) <= processes[k].burstTime
          /\ Done => /\ TimesFinalized(processes[k].id) = 1
                     /\ SlicesOf(processes[k].id, Len(slices))
                           = processes[k].burstTime

\* A finished run in which one process got its burst in two slices.
C4_Witness ==
    /\ Done
    /\ \E j1, j2 \in 1 .. Len(slices) :
          /\ j1 < j2
          /\ slices[j1].id = slices[j2].id
          /\ slices[j1].len + slices[j2].len = ById(slices[j1].id).burstTime

\* ----------------------------------------------------------------- C5
\* What FCFSScheduler::schedule computes for the process vector procs.
RECURSIVE FCFSLoop(_, _, _)
FCFSLoop(procs, k, t) ==
    IF k > Len(procs) THEN procs
    ELSE LET q == FCFSBody(procs[k], t) IN
         FCFSLoop([procs EXCEPT ![k] = q], k + 1, q.completionTime)

FCFSRun(procs) == FCFSLoop(SortByArrival(procs), 1, 0)

\* The vector as addProcess built it (Round Robin does not reorder it).
AsInserted ==
    [k \in Positions |->
        NewProcess(processes[k].id, processes[k].arrivalTime,
                   processes[k].burstTime, processes[k].priority)]

MaxBurstTime == MaxCompletion([k \in Positions |->
                    [completionTime |-> processes[k].burstTime]], N)

\* C5: Round Robin with timeQuantum >= the largest burstTime gives every
\* process, whatever the insertion order, the responseTime and completionTime
\* FCFS gives it on the same process set.
C5_RoundRobinDegeneratesToFCFS ==
    (Done /\ policy = "RR" /\ timeQuantum >= MaxBurstTime) =>
        LET fcfs == FCFSRun(AsInserted) IN
        \A k, m \in Positions :
            fcfs[m].id = processes[k].id =>
                /\ fcfs[m].responseTime = processes[k].responseTime
                /\ fcfs[m].completionTime = processes[k].completionTime

\* ------------------------------------------------------- C6, C7, C8
\* Process id had arrived and had not run at all when slice j was cut.
WaitingAt(id, j) ==
    /\ ById(id).arrivalTime <= slices[j].start
    /\ \A m \in 1 .. j - 1 : slices[m].id # id

\* Process id had arrived and was unfinished when slice j was cut.
UnfinishedAt(id, j) ==
    /\ ById(id).arrivalTime <= slices[j].start
    /\ SlicesOf(id, j - 1) < ById(id).burstTime

Ids == {processes[k].id : k \in Positions}

\* C6: non-preemptive Priority dispatches, at every decision point, a process
\* with the lowest priority value among those arrived and not yet run.
C6_PriorityLowestValueFirst ==
    policy = "Priority" =>
        \A j \in 1 .. Len(slices) : \A id \in Ids :
            WaitingAt(id, j) =>
                ById(slices[j].id).priority <= ById(id).priority

\* C7 as claimed: Preemptive Priority dispatches a process with the highest
\* priority value among the arrived, unfinished processes.
C7_HighestValueFirst ==
    policy = "PreemptivePriority" =>
        \A j \in 1 .. Len(slices) : \A id \in Ids :
            UnfinishedAt(id, j) =>
                ById(slices[j].id).priority >= ById(id).priority

\* C7, amended: Preemptive Priority dispatches, at every dispatch, a process
\* with the lowest priority value among the arrived, unfinished processes.
C7_LowestValueFirst ==
    policy = "PreemptivePriority" =>
        \A j \in 1 .. Len(slices) : \A id \in Ids :
            UnfinishedAt(id, j) =>
                ById(slices[j].id).priority <= ById(id).priority

\* A Preemptive Priority dispatch that chose between two ready processes of
\* different priority values.
C7_Witness ==
    /\ policy = "PreemptivePriority"
    /\ \E j \in 1 .. Len(slices) : \E id \in Ids :
          /\ UnfinishedAt(id, j)
          /\ ById(slices[j].id).priority < ById(id).priority

\* C8: when several ready processes share the least burstTime, SJF dispatches
\* the earliest of them in arrival order, and among equal arrival times the
\* earliest inserted.
C8_SJFStableTieBreak ==
    policy = "SJF" =>
        \A j \in 1 .. Len(slices) : \A id \in Ids :
            LET run == ById(slices[j].id)
                other == ById(id)
            IN (WaitingAt(id, j) /\ other.burstTime = run.burstTime) =>
                  \/ run.arrivalTime < other.arrivalTime
                  \/ run.arrivalTime = other.arrivalTime /\ run.id <= other.id

\* ----------------------------------------------------------------- C9
InvalidInput ==
    \/ \E k \in Positions :
          processes[k].burstTime <= 0 \/ processes[k].arrivalTime < 0
    \/ policy = "RR" /\ timeQuantum <= 0

\* C9: schedule() on invalid input (a burstTime <= 0, an arrivalTime < 0, a
\* Round Robin quantum <= 0) is rejected before any simulation step: no loop
\* iteration runs, no process is dispatched or given timings.
C9_InvalidInputRejected ==
    (InvalidInput /\ pc # "idle") =>
        /\ iterations = 0
        /\ slices = << >>
        /\ finalized = << >>

\* ---------------------------------------------------------------- C10
\* C10: schedule() on zero processes dispatches nothing and leaves the four
\* metrics defined as zero, calculateMetrics dividing by zero nowhere.
C10_EmptyInputZeroMetrics ==
    (Done /\ N = 0) =>
        /\ slices = << >>
        /\ \A m \in DOMAIN metrics :
              metrics[m].kind = "finite" /\ metrics[m].num = 0

\* ---------------------------------------------------------------- C11
\* C11: when calculateMetrics runs at the end of schedule(), every process
\* has remainingTime = 0, under each policy.
C11_RemainingTimeZero ==
    Done => \A k \in Positions : processes[k].remainingTime = 0

\* ---------------------------------------------------------------- C12
\* C12: for a non-empty valid process set the makespan M, the largest
\* completionTime, satisfies 0 < n <= M, and throughput is n / M.
C12_ThroughputBound ==
    (Done /\ N > 0) =>
        LET tp == metrics.throughput IN
        /\ tp.kind = "finite"
        /\ tp.num = N
        /\ \E k \in Positions : processes[k].completionTime = tp.den
        /\ \A k \in Positions : processes[k].completionTime <= tp.den
        /\ 0 < tp.num /\ tp.num <= tp.den

\* A finished run of MaxProcs processes with idle time: throughput below 1.
C12_Witness ==
    /\ Done /\ N = MaxProcs
    /\ metrics.throughput.num < metrics.throughput.den
    /\ TotalBurst < metrics.throughput.den

\* ---------------------------------------------------------------- C13
\* The clock when slice j was cut: the end of the slice before it.
ClockBefore(j) == IF j = 1 THEN 0 ELSE slices[j - 1].start + slices[j - 1].len

\* C13: FCFS runs the processes in ascending arrivalTime order, ties in
\* insertion order, and gives each, with start = max(clock, arrivalTime),
\* responseTime = start - arrivalTime and completionTime = start + burstTime,
\* the clock becoming completionTime.
C13_FCFSArrivalOrder ==
    policy = "FCFS" =>
        /\ \A j \in 1 .. Len(slices) - 1 :
              LET a == ById(slices[j].id)
                  b == ById(slices[j + 1].id)
              IN \/ a.arrivalTime < b.arrivalTime
                 \/ a.arrivalTime = b.arrivalTime /\ a.id < b.id
        /\ \A j \in 1 .. Len(slices) :
              LET p == ById(slices[j].id)
                  start == Max(ClockBefore(j), p.arrivalTime)
              IN /\ slices[j].start = start
                 /\ p.responseTime = start - p.arrivalTime
                 /\ p.completionTime = start + p.burstTime
                 /\ j = Len(slices) => currentTime = p.completionTime

\* ---------------------------------------------------------------- C14
\* The slices given to process id, by their numbers.
SliceNumbers(id) == {j \in 1 .. Len(slices) : slices[j].id = id}

FirstSlice(id) == CHOOSE j \in SliceNumbers(id) : \A m \in SliceNumbers(id) : j <= m

\* C14: under every policy responseTime is -1 until the first dispatch of the
\* process and from then on, whatever is dispatched later, the clock of that
\* first dispatch minus arrivalTime.
C14_ResponseSetOnce ==
    \A k \in Positions :
        LET p == processes[k] IN
        IF SliceNumbers(p.id) = {} THEN p.responseTime = -1
        ELSE p.responseTime = slices[FirstSlice(p.id)].start - p.arrivalTime

\* A process dispatched a second time, at a later clock, with the
\* responseTime of its first dispatch.
C14_Witness ==
    \E k \in Positions : \E j \in SliceNumbers(processes[k].id) :
        /\ j # FirstSlice(processes[k].id)
        /\ slices[j].start > slices[FirstSlice(processes[k].id)].start
        /\ processes[k].responseTime
              = slices[FirstSlice(processes[k].id)].start - processes[k].arrivalTime

\* ---------------------------------------------------------------- C15
\* C15: SJF dispatches, at each decision point, a process of the least
\* burstTime among those arrived and not yet run, and the process then has the
\* CPU for [clock, clock + burstTime), whoever arrives meanwhile.
C15_SJFShortestFirstNonPreemptive ==
    policy = "SJF" =>
        \A j \in 1 .. Len(slices) :
            LET run == ById(slices[j].id) IN
            /\ run.arrivalTime <= slices[j].start
            /\ \A id \in Ids :
                  WaitingAt(id, j) => run.burstTime <= ById(id).burstTime
            /\ slices[j].len = run.burstTime
            /\ slices[j].start >= ClockBefore(j)
            /\ \A m \in 1 .. Len(slices) : slices[m].id = slices[j].id => m = j

\* A shorter process arrived while a longer one had the CPU, and the longer
\* one kept it to its end.
C15_Witness ==
    /\ policy = "SJF"
    /\ \E j \in 1 .. Len(slices) : \E id \in Ids :
          /\ slices[j].start < ById(id).arrivalTime
          /\ ById(id).arrivalTime < slices[j].start + slices[j].len
          /\ ById(id).burstTime < ById(slices[j].id).burstTime
          /\ slices[j].len = ById(slices[j].id).burstTime

\* ---------------------------------------------------------------- C16
\* What was left of process id when slice j was cut.
RemainingAt(id, j) == ById(id).burstTime - SlicesOf(id, j - 1)

\* The arrival times after the start of slice j.
LaterArrivals(j) ==
    {processes[k].arrivalTime : k \in {m \in Positions :
                                   processes[m].arrivalTime > slices[j].start}}

\* C16: every SRTF slice is as long as the smaller of what is left of the
\* dispatched process and the time to the next arrival, and the dispatched
\* process has the least remaining time among the arrived, unfinished ones;
\* no process arrives inside a slice, so this holds at every instant of it.
C16_SRTFLeastRemaining ==
    policy = "SRTF" =>
        \A j \in 1 .. Len(slices) :
            LET id == slices[j].id
                rem == RemainingAt(id, j)
                later == LaterArrivals(j)
                next == CHOOSE a \in later : \A b \in later : a <= b
            IN /\ slices[j].len =
                     (IF later = {} THEN rem ELSE Min(rem, next - slices[j].start))
               /\ UnfinishedAt(id, j)
               /\ \A other \in Ids :
                     UnfinishedAt(other, j) => rem <= RemainingAt(other, j)
               /\ \A k \in Positions :
                     ~ /\ slices[j].start < processes[k].arrivalTime
                       /\ processes[k].arrivalTime < slices[j].start + slices[j].len

\* A preemption: a slice cut short by an arrival, followed by a slice of the
\* newcomer, which had strictly less left than the process it displaced.
C16_Witness ==
    /\ policy = "SRTF"
    /\ \E j \in 1 .. Len(slices) - 1 :
          /\ slices[j].len < RemainingAt(slices[j].id, j)
          /\ slices[j + 1].id # slices[j].id
          /\ ById(slices[j + 1].id).arrivalTime = slices[j + 1].start
          /\ RemainingAt(slices[j + 1].id, j + 1) < RemainingAt(slices[j].id, j + 1)

\* ---------------------------------------------------------------- C17
\* C17: every Round Robin slice has length min(timeQuantum, remainingTime),
\* and a process preempted at time t is dispatched again only after every
\* other process that arrived at or before t and is unfinished has had a slice.
C17_RoundRobinQueueOrder ==
    policy = "RR" =>
        \A j \in 1 .. Len(slices) :
            LET id == slices[j].id
                t == slices[j].start + slices[j].len
            IN /\ slices[j].len = Min(timeQuantum, RemainingAt(id, j))
               /\ \A n \in j + 1 .. Len(slices) :
                     slices[n].id = id =>
                        \A other \in Ids \ {id} :
                            (/\ ById(other).arrivalTime <= t
                             /\ SlicesOf(other, j) < ById(other).burstTime)
                            => \E m \in j + 1 .. n - 1 : slices[m].id = other

\* ---------------------------------------------------------------- C18
\* Position k holds a process that is not finished.
Unfinished(k) == TimesFinalized(processes[k].id) = 0

\* The positions of the processes that have not arrived at time t.
NotYetArrived(t) == {k \in Positions : processes[k].arrivalTime > t}

\* Jumping the clock to time a from t is the fast-forward the claim allows.
IdleJumpAllowed(t, a) ==
    /\ \A k \in Positions : processes[k].arrivalTime <= t => ~Unfinished(k)
    /\ \A k \in NotYetArrived(t) : a <= processes[k].arrivalTime

\* C18: under every policy and insertion order, at each decision the ready
\* set holds every unfinished process with arrivalTime <= clock, and the clock
\* is fast-forwarded only when there is none, to the least arrivalTime among
\* the processes not yet arrived.
C18_AdmissionComplete ==
    /\ (pc = "loop" /\ policy # "FCFS") =>
         LET adm == Admitted IN
         /\ \A k \in Positions :
               (processes[k].arrivalTime <= currentTime /\ Unfinished(k))
                  => \E m \in 1 .. Len(adm.ready) : adm.ready[m] = k
         /\ (adm.ready = << >> /\ adm.i < N) =>
               IdleJumpAllowed(currentTime, processes[adm.i + 1].arrivalTime)
    /\ (pc = "loop" /\ policy = "FCFS" /\ completed < N
           /\ processes[completed + 1].arrivalTime > currentTime) =>
               IdleJumpAllowed(currentTime, processes[completed + 1].arrivalTime)

\* ---------------------------------------------------------------- C19
\* C19: in the five policies with a ready set, i - completed is the number of
\* admitted unfinished processes, and whenever the ready set is empty after
\* admission inside the loop, i < processes.size() and processes[i] has not
\* arrived.
C19_NoExhaustion ==
    (pc = "loop" /\ policy # "FCFS") =>
        LET adm == Admitted IN
        /\ completed < N
        /\ i - completed = Len(ready)
        /\ adm.i - completed = Len(adm.ready)
        /\ adm.ready = << >> =>
              /\ adm.i < N
              /\ processes[adm.i + 1].arrivalTime > currentTime

\* The ready set is empty after admission with a process already completed:
\* the CPU is about to idle in the middle of the run.
C19_Witness ==
    /\ pc = "loop" /\ policy # "FCFS"
    /\ completed > 0
    /\ Admitted.ready = << >>
    /\ processes[Admitted.i + 1].arrivalTime > currentTime

\* ---------------------------------------------------------------- C20
\* The slices lie one after another from time 0 to the clock, none before
\* the arrival of its process, and finished processes ended at distinct times.
Timeline ==
    /\ \A j \in 1 .. Len(slices) :
          /\ slices[j].len > 0
          /\ slices[j].start >= ClockBefore(j)
          /\ slices[j].start >= ById(slices[j].id).arrivalTime
    /\ currentTime >= ClockBefore(Len(slices) + 1)
    /\ \A j, m \in 1 .. Len(slices) :
          j # m => \/ slices[j].start + slices[j].len <= slices[m].start
                   \/ slices[m].start + slices[m].len <= slices[j].start
    /\ \A k, m \in Positions :
          (k # m /\ ~Unfinished(k) /\ ~Unfinished(m))
             => processes[k].completionTime # processes[m].completionTime

\* C20: under every policy the clock never decreases, no slice starts before
\* its process arrived, the slices are pairwise disjoint intervals and no two
\* processes complete at the same time.
C20_SingleCPUTimeline == [][currentTime' >= currentTime /\ Timeline']_vars

\* A finished run of MaxProcs processes with a preemption and an idle gap.
C20_Witness ==
    /\ Done /\ N = MaxProcs
    /\ Len(slices) > N
    /\ \E j \in 1 .. Len(slices) : slices[j].start > ClockBefore(j)

====
